---------------------------- MODULE Spec2Model ----------------------------
(***************************************************************************)
(* The UTXO transfer routines of go-web3-scripts:                          *)
(*   SendLitecoinTransaction   src/LITECOIN/main.go  85-169                *)
(*   sendBitcoinTransaction    src/tron/go.mod       423-528               *)
(* One run of one of the two routines is a behaviour: the routine, its     *)
(* arguments and the UTXO snapshot the provider returns are chosen in      *)
(* Init, and each action is one block of the routine's body.  log.Fatal    *)
(* ends the process: pc = "fatal" with the message in err.                 *)
(*                                                                         *)
(* Data.  A hex string is a sequence of characters, each the value 0..15   *)
(* of a hex digit or NonHex for any other character.  Byte strings are     *)
(* sequences of 0..255.  Amounts given as float64 coin units are carried   *)
(* as the decimal number of 1e-8 units they denote (0.00001015 is 1015).   *)
(* The cryptographic primitives (public key of a private key, Hash160,     *)
(* the double SHA-256 of the signature preimage, ECDSA with the RFC 6979   *)
(* nonce) are modelled as injective functions of their inputs.             *)
(***************************************************************************)
EXTENDS Integers, Sequences, FiniteSets, TLC

VARIABLES
    fn,          \* the routine this run executes
    wif,         \* the key argument: [ok, PrivKey]
    toAddress,   \* the destination argument: [ok, hash]
    amountBTC,   \* the amount argument, in 1e-8 units of the float64
    utxos,       \* the snapshot returned by the UTXO provider
    pc,          \* position in the routine
    tx,          \* the wire.MsgTx under construction: [TxIn, TxOut]
    totalInput,  \* the routine's running total
    amount,      \* amount / amountSat, satoshis
    k,           \* index of the next UTXO the input loop visits
    i,           \* index of the next input the signing loop visits
    subscripts,  \* the prior locking script handed to the signer, per input
    sent,        \* transactions handed to the broadcaster
    err,         \* the log.Fatal message, "" if none
    enc,         \* the address encoders applied to a pair of payloads
    acct         \* one run of an account routine

\* what the transfer routines leave alone
otherVars == <<enc, acct>>

vars == <<fn, wif, toAddress, amountBTC, utxos, pc, tx, totalInput, amount,
          k, i, subscripts, sent, err, enc, acct>>

----------------------------------------------------------------------------
(* Bounds of the model *)

\* longest UTXO list the provider returns
MaxUtxos == 3

----------------------------------------------------------------------------
(* Program constants *)

\* chainhash.HashSize: the length of `var hash chainhash.Hash`
HashSize == 32
\* the fixed fee of SendLitecoinTransaction (`amount+1000`)
LitecoinFee == 1000
\* the bytes and the rate of `fee := int64(150 * 10)`
FeeBytes == 150
FeeRate == 10
\* txscript.SigHashAll
SigHashAll == 1
\* the threshold of `if change > 0`
DustThreshold == 0

BitcoinFee == FeeBytes * FeeRate

LTC == "SendLitecoinTransaction"
BTC == "sendBitcoinTransaction"

Fee == IF fn = LTC THEN LitecoinFee ELSE BitcoinFee

----------------------------------------------------------------------------
(* Hex strings and hashes *)

NonHex == 16

IsHexStr(s) == \A j \in 1..Len(s) : s[j] \in 0..15

\* hex.EncodeToString
HexOf(bytes) ==
    [j \in 1..(2 * Len(bytes)) |->
        IF j % 2 = 1 THEN bytes[(j + 1) \div 2] \div 16
                     ELSE bytes[j \div 2] % 16]

\* hex.DecodeString: an odd length or a non-hex character is an error
HexDecodeString(s) ==
    IF Len(s) % 2 = 0 /\ IsHexStr(s)
    THEN [ok |-> TRUE,
          bytes |-> [j \in 1..(Len(s) \div 2) |-> 16 * s[2 * j - 1] + s[2 * j]]]
    ELSE [ok |-> FALSE, bytes |-> <<>>]

\* `var hash chainhash.Hash; copy(hash[:], txid)`: the first HashSize bytes
\* in the order decoded, zero-filled when fewer are supplied
CopyToHash(bytes) ==
    [j \in 1..HashSize |-> IF j <= Len(bytes) THEN bytes[j] ELSE 0]

\* chainhash.NewHashFromStr: at most 2*HashSize characters, an odd length is
\* padded with a leading zero, the bytes are right-aligned and then reversed
NewHashFromStr(s) ==
    LET src == IF Len(s) % 2 = 0 THEN s ELSE <<0>> \o s
        n   == Len(src) \div 2
        dec == HexDecodeString(src)
        reversedHash == [j \in 1..HashSize |->
                            IF j > HashSize - n THEN dec.bytes[j - (HashSize - n)]
                                                ELSE 0]
    IN  IF Len(s) > 2 * HashSize \/ ~dec.ok
        THEN [ok |-> FALSE, hash |-> <<>>]
        ELSE [ok |-> TRUE,
              hash |-> [j \in 1..HashSize |-> reversedHash[HashSize + 1 - j]]]

\* Hash.String(): the hex of the bytes in reverse order, the form in which
\* a transaction id is written and in which the provider supplies it
HashString(h) == HexOf([j \in 1..Len(h) |-> h[Len(h) + 1 - j]])

----------------------------------------------------------------------------
(* Amounts *)

\* The numbers n of 0..3000 for which the float64 nearest to n * 1e-8, times
\* 1e8, lies below n (IEEE 754 double arithmetic), so that the conversion to
\* an integer yields n - 1.  0.00001015 * 1e8 is 1014.9999999999999.
LossyUnits ==
    {3, 6, 12, 24, 29, 48, 58, 59, 96, 105, 107, 116, 118, 127, 192, 201,
     205, 210, 214, 223, 232, 236, 241, 245, 254, 384, 393, 402, 410, 411,
     419, 420, 428, 429, 437, 446, 455, 464, 472, 473, 481, 482, 490, 491,
     499, 508, 767, 768, 769, 785, 786, 787, 803, 804, 805, 820, 821, 822,
     838, 839, 840, 856, 857, 858, 873, 874, 875, 891, 892, 893, 909, 910,
     911, 927, 928, 944, 945, 946, 962, 963, 964, 980, 981, 982, 997, 998,
     999, 1015, 1016, 1017, 1534, 1536, 1538, 1553, 1555, 1557, 1570, 1572,
     1574, 1587, 1589, 1591, 1606, 1608, 1610, 1623, 1625, 1627, 1640,
     1642, 1644, 1659, 1661, 1663, 1676, 1678, 1680, 1693, 1695, 1697,
     1712, 1714, 1716, 1729, 1731, 1733, 1746, 1748, 1750, 1765, 1767,
     1769, 1782, 1784, 1786, 1799, 1801, 1803, 1818, 1820, 1822, 1835,
     1837, 1839, 1854, 1856, 1871, 1873, 1875, 1888, 1890, 1892, 1907,
     1909, 1924, 1926, 1928, 1941, 1943, 1945, 1960, 1962, 1964, 1977,
     1979, 1981, 1994, 1996, 1998, 2013, 2015, 2017, 2030, 2032, 2034,
     2047}

\* int64(x * 1e8) and btcutil.Amount(x * 1e8) on a float64 x of n * 1e-8,
\* for n in -3000..3000: the product is truncated toward zero
FloatToSatoshis(n) ==
    IF n >= 0 THEN (IF n \in LossyUnits THEN n - 1 ELSE n)
              ELSE (IF (0 - n) \in LossyUnits THEN n + 1 ELSE n)

----------------------------------------------------------------------------
(* Keys, addresses and scripts *)

\* privKey.PubKey().SerializeCompressed(): 33 bytes
PubKey(priv) == <<2>> \o [j \in 1..32 |-> priv]

\* btcutil.Hash160: 20 bytes
Hash160(b) == [j \in 1..20 |-> (17 * b[2] + b[1] + j) % 256]

\* btcutil.NewAddressPubKeyHash
NewAddressPubKeyHash(pkHash) == [kind |-> "pkh", data |-> pkHash]

\* btcutil.NewAddressPubKey
NewAddressPubKey(serializedPubKey) == [kind |-> "pk", data |-> serializedPubKey]

\* btcec.ParsePubKey inside btcutil.NewAddressPubKey: the serialization of
\* the zero scalar's point has the x coordinate 0, which is not on the
\* curve, and NewAddressPubKey returns an error for it
ParsePubKey(serializedPubKey) ==
    \E j \in 2..Len(serializedPubKey) : serializedPubKey[j] # 0

\* OP_DUP OP_HASH160 <20 bytes> OP_EQUALVERIFY OP_CHECKSIG
PayToPubKeyHashScript(pkHash) == <<118, 169, 20>> \o pkHash \o <<136, 172>>

\* <33 bytes> OP_CHECKSIG
PayToPubKeyScript(serializedPubKey) == <<33>> \o serializedPubKey \o <<172>>

\* txscript.PayToAddrScript: decided by the address type
PayToAddrScript(addr) ==
    IF addr.kind = "pkh" THEN PayToPubKeyHashScript(addr.data)
                         ELSE PayToPubKeyScript(addr.data)

\* the 20-byte key hash a pay-to-pubkey-hash script encodes
IsPayToPubKeyHash(script) ==
    /\ Len(script) = 25
    /\ SubSeq(script, 1, 3) = <<118, 169, 20>>
    /\ SubSeq(script, 24, 25) = <<136, 172>>

ScriptKeyHash(script) == SubSeq(script, 4, 23)

\* txscript's tokenizer: opcodes 1..75 push that many bytes, OP_PUSHDATA1/2/4
\* (76, 77, 78) push a length-prefixed run, every other opcode is one byte
RECURSIVE ScriptParsesFrom(_, _)
ScriptParsesFrom(s, p) ==
    IF p > Len(s) THEN TRUE
    ELSE LET op == s[p] IN
         IF op \in 1..75
         THEN p + op <= Len(s) /\ ScriptParsesFrom(s, p + op + 1)
         ELSE IF op = 76
         THEN /\ p + 1 <= Len(s)
              /\ p + 1 + s[p + 1] <= Len(s)
              /\ ScriptParsesFrom(s, p + 2 + s[p + 1])
         ELSE IF op = 77
         THEN /\ p + 2 <= Len(s)
              /\ p + 2 + s[p + 1] + 256 * s[p + 2] <= Len(s)
              /\ ScriptParsesFrom(s, p + 3 + s[p + 1] + 256 * s[p + 2])
         ELSE IF op = 78
         THEN /\ p + 4 <= Len(s)
              /\ LET n == s[p + 1] + 256 * s[p + 2] + 65536 * s[p + 3]
                          + 16777216 * s[p + 4]
                 IN  p + 4 + n <= Len(s) /\ ScriptParsesFrom(s, p + 5 + n)
         ELSE ScriptParsesFrom(s, p + 1)

checkScriptParses(script) == ScriptParsesFrom(script, 1)

----------------------------------------------------------------------------
(* Transactions and signing *)

\* wire.NewMsgTx
NewMsgTx == [TxIn |-> <<>>, TxOut |-> <<>>]

\* wire.NewTxIn(outPoint, nil, nil)
NewTxIn(hash, index) == [Hash |-> hash, Index |-> index, SignatureScript |-> <<>>]

\* wire.NewTxOut
NewTxOut(value, pkScript) == [Value |-> value, PkScript |-> pkScript]

AddTxIn(t, txIn) == [t EXCEPT !.TxIn = Append(@, txIn)]

AddTxOut(t, txOut) == [t EXCEPT !.TxOut = Append(@, txOut)]

OutPoint(txIn) == <<txIn.Hash, txIn.Index>>

\* binary.LittleEndian.PutUint32
Uint32LE(n) ==
    <<n % 256, (n \div 256) % 256, (n \div 65536) % 256, (n \div 16777216) % 256>>

\* the previous outpoint as MsgTx.Serialize writes it: the 32 bytes of the
\* hash as stored, then the index
WriteOutPoint(txIn) == txIn.Hash \o Uint32LE(txIn.Index)

\* A signature hash taken of the transaction as it stands, the unlocking
\* scripts of the other inputs left in place.
SigHashInputScriptKeepingOthers(t, j, idx, script) ==
    IF j = idx THEN script ELSE t.TxIn[j].SignatureScript

\* The script each input carries in the copy the signature hash is taken
\* of: the prior locking script at the input being signed, nothing at any
\* other input, whatever unlocking script that input already holds.
SigHashInputScript(t, j, idx, script) == IF j = idx THEN script ELSE <<>>

\* txscript's calcSignatureHash for SigHashAll: the preimage is the copy of
\* the transaction followed by the hash type.  The double SHA-256 is
\* modelled as the identity on the preimage.  (Scripts here hold no
\* OP_CODESEPARATOR, which the library removes first.)
calcSignatureHash(script, hashType, t, idx) ==
    [TxIn |-> [j \in 1..Len(t.TxIn) |->
                  [Hash |-> t.TxIn[j].Hash, Index |-> t.TxIn[j].Index,
                   SignatureScript |-> SigHashInputScript(t, j, idx, script)]],
     TxOut |-> t.TxOut,
     hashType |-> hashType]

\* ecdsa.Sign inside txscript.RawTxInSignature: the nonce is derived from
\* the key and the digest alone (RFC 6979), with no other input.
SigningNonce(privKey, hash) == [key |-> privKey, digest |-> hash]

\* txscript.SignatureScript(tx, idx, subscript, hashType, privKey, true):
\* fails only if the subscript does not parse; otherwise the push of the
\* signature (deterministic in digest and key) with the hash type, then the
\* push of the compressed public key.  The key is not compared with the
\* subscript.
SignatureScript(t, idx, subscript, hashType, privKey) ==
    IF ~checkScriptParses(subscript)
    THEN [ok |-> FALSE, script |-> <<>>]
    ELSE [ok |-> TRUE,
          script |-> <<[sig |-> [hash |-> calcSignatureHash(subscript, hashType, t, idx),
                                 key |-> privKey,
                                 nonce |-> SigningNonce(privKey,
                                     calcSignatureHash(subscript, hashType, t, idx))],
                        hashType |-> hashType,
                        pubkey |-> PubKey(privKey)]>>]

SetSignatureScript(t, idx, sigScript) ==
    [t EXCEPT !.TxIn[idx].SignatureScript = sigScript]

RECURSIVE SumValues(_)
SumValues(seq) ==
    IF seq = <<>> THEN 0 ELSE seq[1].Value + SumValues(Tail(seq))

----------------------------------------------------------------------------
(* The arguments and the provider's snapshot *)

\* the private keys a caller passes, and the keys outputs on chain pay to
SenderKeys == {1}
ChainKeys == {1, 2}

OwnKey == CHOOSE key \in SenderKeys : TRUE
ForeignKey == CHOOSE key \in ChainKeys \ SenderKeys : TRUE

\* transaction ids as the provider writes them
TxidA == HexOf([j \in 1..HashSize |-> j])
TxidB == HexOf([j \in 1..HashSize |-> 100 + j])
TxidNotHex == <<NonHex, NonHex>>

\* the hex of the pay-to-pubkey-hash script of a key
LockingScriptHex(key) == HexOf(PayToPubKeyHashScript(Hash160(PubKey(key))))

\* a locking script cut short inside its 20-byte push
CutScriptHex == HexOf(<<118, 169, 20, 1, 2>>)

\* One unspent output as the provider reports it: btcjson.ListUnspentResult
\* {TxID, Vout, ScriptPubKey, Amount} with Amount the float64 of
\* Value * 1e-8, and BitcoinUTXOResponse {TxID, Vout, Value}, which does not
\* carry the script the output has on chain.
UTXO(txid, vout, value, scriptHex) ==
    [TxID |-> txid, Vout |-> vout, Value |-> value, ScriptPubKey |-> scriptHex]

UtxoPool ==
    { UTXO(TxidA, 0, 600, LockingScriptHex(OwnKey)),
      UTXO(TxidA, 1, 1015, LockingScriptHex(OwnKey)),
      UTXO(TxidB, 0, 2000, LockingScriptHex(OwnKey)),
      UTXO(TxidB, 1, 1000, LockingScriptHex(ForeignKey)),
      UTXO(TxidB, 2, 2000, TxidNotHex),
      UTXO(TxidA, 2, 2000, CutScriptHex),
      UTXO(TxidNotHex, 0, 2000, LockingScriptHex(OwnKey)) }

UtxoLists == UNION { [1..n -> UtxoPool] : n \in 0..MaxUtxos }

\* amountBTC, in 1e-8 units; 1015 is one of LossyUnits
Amounts == {0 - 100, 0, 14, 100, 1015, 2500}

\* toAddress: a string btcutil.DecodeAddress accepts as the pay-to-pubkey-hash
\* address of a key hash, or one it rejects
ToAddresses ==
    { [ok |-> TRUE, hash |-> Hash160(PubKey(ForeignKey))],
      [ok |-> FALSE, hash |-> <<>>] }

\* btcutil.DecodeAddress
DecodeAddress(a) == [ok |-> a.ok, addr |-> NewAddressPubKeyHash(a.hash)]

\* the key argument: a *btcutil.WIF, or a WIF string btcutil.DecodeWIF
\* accepts or rejects; the WIF string of the zero scalar is accepted
Wifs(f) ==
    { [ok |-> TRUE, PrivKey |-> key] : key \in SenderKeys }
    \cup (IF f = BTC THEN { [ok |-> FALSE, PrivKey |-> OwnKey],
                            [ok |-> TRUE, PrivKey |-> 0] }
                     ELSE {})

\* the encoders and the account routines at rest
NoEnc == [variant |-> "none"]
NoAcct == [routine |-> "none"]

Init ==
    /\ fn \in {LTC, BTC}
    /\ wif \in Wifs(fn)
    /\ toAddress \in ToAddresses
    /\ amountBTC \in Amounts
    /\ utxos \in UtxoLists
    /\ pc = "start"
    /\ tx = NewMsgTx
    /\ totalInput = 0
    /\ amount = 0
    /\ k = 1
    /\ i = 1
    /\ subscripts = <<>>
    /\ sent = <<>>
    /\ err = ""
    /\ enc = NoEnc
    /\ acct = NoAcct

\* log.Fatal / log.Fatalf: the process ends
Fatal(msg) == pc' = "fatal" /\ err' = msg

----------------------------------------------------------------------------
(* SendLitecoinTransaction *)

\* A sender address taken of the uncompressed form of the public key.
LitecoinFromAddrUncompressed ==
    NewAddressPubKeyHash(Hash160(<<4>> \o Tail(PubKey(wif.PrivKey))))

\* fromAddr of SendLitecoinTransaction
LitecoinFromAddr == NewAddressPubKeyHash(Hash160(PubKey(wif.PrivKey)))

\* A start that goes on to the input loop whatever the length of the list.
LitecoinStartAnyList ==
    /\ fn = LTC /\ pc = "start"
    /\ \E listed \in BOOLEAN :
         IF ~DecodeAddress(toAddress).ok
         THEN Fatal("Invalid to address") /\ UNCHANGED amount
         ELSE /\ amount' = FloatToSatoshis(amountBTC)
              /\ IF ~listed THEN Fatal("Failed to list unspent")
                 ELSE pc' = "inputs" /\ UNCHANGED err
    /\ tx' = NewMsgTx /\ totalInput' = 0 /\ k' = 1
    /\ UNCHANGED otherVars
    /\ UNCHANGED <<fn, wif, toAddress, amountBTC, utxos, i, subscripts, sent>>

\* lines 86-109: the addresses, the amount, the snapshot, the empty tx
LitecoinStart ==
    /\ fn = LTC /\ pc = "start"
    /\ \E listed \in BOOLEAN :
         IF ~DecodeAddress(toAddress).ok
         THEN Fatal("Invalid to address") /\ UNCHANGED amount
         ELSE /\ amount' = FloatToSatoshis(amountBTC)
              /\ IF ~listed THEN Fatal("Failed to list unspent")
                 ELSE IF Len(utxos) = 0
                 THEN Fatal("No unspent outputs available")
                 ELSE pc' = "inputs" /\ UNCHANGED err
    /\ tx' = NewMsgTx /\ totalInput' = 0 /\ k' = 1
    /\ UNCHANGED otherVars
    /\ UNCHANGED <<fn, wif, toAddress, amountBTC, utxos, i, subscripts, sent>>

\* `totalInput >= amount+1000` leaves the input loop
LitecoinCovered(total, amt) == total >= amt + LitecoinFee

\* lines 112-126: one pass of the input loop
\* An input loop that marks the entry it consumed as spent in the list.
LitecoinAddInputSpending ==
    /\ fn = LTC /\ pc = "inputs"
    /\ LET utxo == utxos[k]
           txid == HexDecodeString(utxo.TxID)
           total == totalInput + FloatToSatoshis(utxo.Value)
       IN  IF ~txid.ok
           THEN Fatal("Invalid txid") /\ UNCHANGED <<tx, totalInput, k, utxos>>
           ELSE /\ tx' = AddTxIn(tx, NewTxIn(CopyToHash(txid.bytes), utxo.Vout))
                /\ totalInput' = total
                /\ utxos' = [utxos EXCEPT ![k].Value = 0]
                /\ IF LitecoinCovered(total, amount) \/ k = Len(utxos)
                   THEN pc' = "outputs" /\ k' = k
                   ELSE pc' = "inputs" /\ k' = k + 1
                /\ UNCHANGED err
    /\ UNCHANGED otherVars
    /\ UNCHANGED <<fn, wif, toAddress, amountBTC, amount, i, subscripts, sent>>

LitecoinAddInput ==
    /\ fn = LTC /\ pc = "inputs"
    /\ LET utxo == utxos[k]
           txid == HexDecodeString(utxo.TxID)
           total == totalInput + FloatToSatoshis(utxo.Value)
       IN  IF ~txid.ok
           THEN Fatal("Invalid txid") /\ UNCHANGED <<tx, totalInput, k>>
           ELSE /\ tx' = AddTxIn(tx, NewTxIn(CopyToHash(txid.bytes), utxo.Vout))
                /\ totalInput' = total
                /\ IF LitecoinCovered(total, amount) \/ k = Len(utxos)
                   THEN pc' = "outputs" /\ k' = k
                   ELSE pc' = "inputs" /\ k' = k + 1
                /\ UNCHANGED err
    /\ UNCHANGED otherVars
    /\ UNCHANGED <<fn, wif, toAddress, amountBTC, utxos, amount, i, subscripts, sent>>

\* `if change > 0`
LitecoinHasChange(change) == change > 0

\* lines 128-147: the funds check, the payment output, the change output
LitecoinBuildOutputs ==
    /\ fn = LTC /\ pc = "outputs"
    /\ IF totalInput < amount + LitecoinFee
       THEN Fatal("Insufficient funds") /\ UNCHANGED <<tx, i>>
       ELSE LET pkScript == PayToAddrScript(DecodeAddress(toAddress).addr)
                paid == AddTxOut(tx, NewTxOut(amount, pkScript))
                change == totalInput - amount - LitecoinFee
                changeScript == PayToAddrScript(LitecoinFromAddr)
            IN  /\ tx' = IF LitecoinHasChange(change)
                         THEN AddTxOut(paid, NewTxOut(change, changeScript))
                         ELSE paid
                /\ pc' = "sign" /\ i' = 1 /\ UNCHANGED err
    /\ UNCHANGED otherVars
    /\ UNCHANGED <<fn, wif, toAddress, amountBTC, utxos, totalInput, amount, k,
                   subscripts, sent>>

\* A signing loop that goes on to the next input when decoding or signing
\* fails, leaving the input without its signature script.
LitecoinSignInputSkippingFailure ==
    /\ fn = LTC /\ pc = "sign"
    /\ LET scriptPubKey == HexDecodeString(utxos[i].ScriptPubKey)
           signed == SignatureScript(tx, i, scriptPubKey.bytes, SigHashAll, wif.PrivKey)
       IN  /\ subscripts' = Append(subscripts, scriptPubKey.bytes)
           /\ tx' = IF scriptPubKey.ok /\ signed.ok
                    THEN SetSignatureScript(tx, i, signed.script)
                    ELSE tx
           /\ i' = i + 1
           /\ pc' = IF i = Len(tx.TxIn) THEN "send" ELSE "sign"
           /\ UNCHANGED err
    /\ UNCHANGED otherVars
    /\ UNCHANGED <<fn, wif, toAddress, amountBTC, utxos, totalInput, amount, k, sent>>

\* lines 150-160: one pass of the signing loop
LitecoinSignInput ==
    /\ fn = LTC /\ pc = "sign"
    /\ LET scriptPubKey == HexDecodeString(utxos[i].ScriptPubKey)
           signed == SignatureScript(tx, i, scriptPubKey.bytes, SigHashAll, wif.PrivKey)
       IN  IF ~scriptPubKey.ok
           THEN Fatal("Failed to decode scriptPubKey") /\ UNCHANGED <<tx, i, subscripts>>
           ELSE /\ subscripts' = Append(subscripts, scriptPubKey.bytes)
                /\ IF ~signed.ok
                   THEN Fatal("Failed to sign") /\ UNCHANGED <<tx, i>>
                   ELSE /\ tx' = SetSignatureScript(tx, i, signed.script)
                        /\ i' = i + 1
                        /\ pc' = IF i = Len(tx.TxIn) THEN "send" ELSE "sign"
                        /\ UNCHANGED err
    /\ UNCHANGED otherVars
    /\ UNCHANGED <<fn, wif, toAddress, amountBTC, utxos, totalInput, amount, k, sent>>

\* A broadcast that adds one more output to the signed transaction.
LitecoinBroadcastWithLateOutput ==
    /\ fn = LTC /\ pc = "send"
    /\ sent' = Append(sent, AddTxOut(tx, NewTxOut(LitecoinFee,
                                        PayToAddrScript(LitecoinFromAddr))))
    /\ \E accepted \in BOOLEAN :
         IF accepted THEN pc' = "done" /\ UNCHANGED err
                     ELSE Fatal("Failed to send transaction")
    /\ UNCHANGED otherVars
    /\ UNCHANGED <<fn, wif, toAddress, amountBTC, utxos, tx, totalInput, amount,
                   k, i, subscripts>>

\* lines 163-168: client.SendRawTransaction(tx, false)
LitecoinBroadcast ==
    /\ fn = LTC /\ pc = "send"
    /\ sent' = Append(sent, tx)
    /\ \E accepted \in BOOLEAN :
         IF accepted THEN pc' = "done" /\ UNCHANGED err
                     ELSE Fatal("Failed to send transaction")
    /\ UNCHANGED otherVars
    /\ UNCHANGED <<fn, wif, toAddress, amountBTC, utxos, tx, totalInput, amount,
                   k, i, subscripts>>

----------------------------------------------------------------------------
(* sendBitcoinTransaction *)

\* fromAddress of sendBitcoinTransaction: a pay-to-pubkey address
BitcoinFromAddress == NewAddressPubKey(PubKey(wif.PrivKey))

\* lines 424-461: the key, the sender address, the snapshot (http.Get,
\* io.ReadAll and json.Unmarshal can each fail), the empty tx
BitcoinStart ==
    /\ fn = BTC /\ pc = "start"
    /\ \E fetched \in {"no answer", "no body", "no list", "list"} :
         IF ~wif.ok THEN Fatal("Invalid WIF")
         ELSE IF ~ParsePubKey(PubKey(wif.PrivKey))
         THEN Fatal("Failed to generate from address")
         ELSE IF fetched = "no answer" THEN Fatal("Failed to get UTXOs")
         ELSE IF fetched = "no body" THEN Fatal("Failed to read UTXO response")
         ELSE IF fetched = "no list" THEN Fatal("Failed to parse UTXO response")
         ELSE IF Len(utxos) = 0 THEN Fatal("No UTXOs found for address")
         ELSE pc' = "inputs" /\ UNCHANGED err
    /\ tx' = NewMsgTx /\ totalInput' = 0 /\ k' = 1
    /\ UNCHANGED otherVars
    /\ UNCHANGED <<fn, wif, toAddress, amountBTC, utxos, amount, i, subscripts, sent>>

\* lines 463-471: one pass of the input loop, which visits every UTXO
BitcoinAddInput ==
    /\ fn = BTC /\ pc = "inputs"
    /\ LET utxo == utxos[k]
           hash == NewHashFromStr(utxo.TxID)
       IN  IF ~hash.ok
           THEN Fatal("Invalid UTXO txid") /\ UNCHANGED <<tx, totalInput, k>>
           ELSE /\ tx' = AddTxIn(tx, NewTxIn(hash.hash, utxo.Vout))
                /\ totalInput' = totalInput + utxo.Value
                /\ IF k = Len(utxos)
                   THEN pc' = "outputs" /\ k' = k
                   ELSE pc' = "inputs" /\ k' = k + 1
                /\ UNCHANGED err
    /\ UNCHANGED otherVars
    /\ UNCHANGED <<fn, wif, toAddress, amountBTC, utxos, amount, i, subscripts, sent>>

\* `if change > 0`
BitcoinHasChange(change) == change > 0

\* lines 474-494: the amount, the payment output, the change output
BitcoinBuildOutputs ==
    /\ fn = BTC /\ pc = "outputs"
    /\ amount' = FloatToSatoshis(amountBTC)
    /\ IF ~DecodeAddress(toAddress).ok
       THEN Fatal("Invalid recipient address") /\ UNCHANGED <<tx, i>>
       ELSE LET toScript == PayToAddrScript(DecodeAddress(toAddress).addr)
                paid == AddTxOut(tx, NewTxOut(amount', toScript))
                change == totalInput - amount' - BitcoinFee
                changeScript == PayToAddrScript(BitcoinFromAddress)
            IN  /\ tx' = IF BitcoinHasChange(change)
                         THEN AddTxOut(paid, NewTxOut(change, changeScript))
                         ELSE paid
                /\ pc' = "sign" /\ i' = 1 /\ UNCHANGED err
    /\ UNCHANGED otherVars
    /\ UNCHANGED <<fn, wif, toAddress, amountBTC, utxos, totalInput, k,
                   subscripts, sent>>

\* lines 497-508: one pass of the signing loop
BitcoinSignInput ==
    /\ fn = BTC /\ pc = "sign"
    /\ LET pkScript == PayToAddrScript(BitcoinFromAddress)
           signed == SignatureScript(tx, i, pkScript, SigHashAll, wif.PrivKey)
       IN  /\ subscripts' = Append(subscripts, pkScript)
           /\ IF ~signed.ok
              THEN Fatal("Failed to sign transaction") /\ UNCHANGED <<tx, i>>
              ELSE /\ tx' = SetSignatureScript(tx, i, signed.script)
                   /\ i' = i + 1
                   /\ pc' = IF i = Len(tx.TxIn) THEN "send" ELSE "sign"
                   /\ UNCHANGED err
    /\ UNCHANGED otherVars
    /\ UNCHANGED <<fn, wif, toAddress, amountBTC, utxos, totalInput, amount, k, sent>>

\* lines 511-527: tx.Serialize, http.Post of the hex, io.ReadAll of the
\* response; the read fails only after the hex has been posted
BitcoinBroadcast ==
    /\ fn = BTC /\ pc = "send"
    /\ sent' = Append(sent, tx)
    /\ \E posted \in {"no answer", "no body", "body"} :
         IF posted = "no answer" THEN Fatal("Failed to broadcast transaction")
         ELSE IF posted = "no body" THEN Fatal("Failed to read broadcast response")
         ELSE pc' = "done" /\ UNCHANGED err
    /\ UNCHANGED otherVars
    /\ UNCHANGED <<fn, wif, toAddress, amountBTC, utxos, tx, totalInput, amount,
                   k, i, subscripts>>

----------------------------------------------------------------------------

Next ==
    \/ LitecoinStart
    \/ LitecoinAddInput
    \/ LitecoinBuildOutputs
    \/ LitecoinSignInput
    \/ LitecoinBroadcast
    \/ BitcoinStart
    \/ BitcoinAddInput
    \/ BitcoinBuildOutputs
    \/ BitcoinSignInput
    \/ BitcoinBroadcast

Spec == Init /\ [][Next]_vars

----------------------------------------------------------------------------
(* The transfer routines on UTXO lists whose txid strings are of any length *)

\* txid strings of two bytes, of 33 bytes, and of 63 hex digits
TxidShort == HexOf(<<171, 205>>)
TxidLong == HexOf([j \in 1..(HashSize + 1) |-> j])
TxidOdd == Tail(TxidA)

TxidUtxoPool ==
    { UTXO(TxidA, 0, 2000, LockingScriptHex(OwnKey)),
      UTXO(TxidShort, 0, 2000, LockingScriptHex(OwnKey)),
      UTXO(TxidLong, 0, 2000, LockingScriptHex(OwnKey)),
      UTXO(TxidOdd, 0, 2000, LockingScriptHex(OwnKey)) }

TxidInit ==
    /\ fn \in {LTC, BTC}
    /\ wif \in Wifs(fn)
    /\ toAddress \in ToAddresses
    /\ amountBTC \in Amounts
    /\ utxos \in UNION { [1..n -> TxidUtxoPool] : n \in 0..MaxUtxos }
    /\ pc = "start"
    /\ tx = NewMsgTx
    /\ totalInput = 0
    /\ amount = 0
    /\ k = 1
    /\ i = 1
    /\ subscripts = <<>>
    /\ sent = <<>>
    /\ err = ""
    /\ enc = NoEnc
    /\ acct = NoAcct

SpecTxids == TxidInit /\ [][Next]_vars

----------------------------------------------------------------------------
(* Address encodings.  Strings are sequences of one-character strings;      *)
(* SHA-256 and Keccak-256 are stand-ins that read every byte they are given *)

Front(b) == SubSeq(b, 1, Len(b) - 1)
Last(b) == b[Len(b)]

\* the modulus and the multiplier of the stand-in digests
DigestModulus == 32749
DigestRadix == 31

\* the polynomial digest of the bytes lo..hi with the weight of their length
RECURSIVE AbsorbRange(_, _, _)
AbsorbRange(b, lo, hi) ==
    IF lo > hi THEN [h |-> 0, w |-> 1]
    ELSE IF lo = hi THEN [h |-> b[lo] + 7, w |-> DigestRadix]
    ELSE LET mid   == (lo + hi) \div 2
             left  == AbsorbRange(b, lo, mid)
             right == AbsorbRange(b, mid + 1, hi)
         IN  [h |-> (left.h * right.w + right.h) % DigestModulus,
              w |-> (left.w * right.w) % DigestModulus]

\* a digest seed that depends on every byte, its position and the length
Absorb(b, n) == (AbsorbRange(b, 1, n).h + 131 * n + 1) % DigestModulus

\* sha256.Sum256
Sha256(b) == [j \in 1..32 |-> (Absorb(b, Len(b)) * j + j * j) % 256]

\* crypto.Keccak256
Keccak256(b) == [j \in 1..32 |-> (Absorb(b, Len(b)) * (j + 2) + 3 * j + 1) % 256]

\* the first four bytes of the double SHA-256
Checksum(b) == SubSeq(Sha256(Sha256(b)), 1, 4)

Base58Alphabet ==
    <<"1", "2", "3", "4", "5", "6", "7", "8", "9",
      "A", "B", "C", "D", "E", "F", "G", "H", "J", "K", "L", "M", "N", "P",
      "Q", "R", "S", "T", "U", "V", "W", "X", "Y", "Z",
      "a", "b", "c", "d", "e", "f", "g", "h", "i", "j", "k", "m", "n", "o",
      "p", "q", "r", "s", "t", "u", "v", "w", "x", "y", "z">>

HexDigits ==
    <<"0", "1", "2", "3", "4", "5", "6", "7", "8", "9",
      "a", "b", "c", "d", "e", "f">>

\* the digits as hex.DecodeString also reads them
UpperHexDigits ==
    <<"0", "1", "2", "3", "4", "5", "6", "7", "8", "9",
      "A", "B", "C", "D", "E", "F">>

Radix58 == Len(Base58Alphabet)

\* big.Int division of a big-endian byte string by d: quotient of the same
\* length and remainder
RECURSIVE LongDiv(_, _)
LongDiv(b, d) ==
    IF b = <<>> THEN [q |-> <<>>, r |-> 0]
    ELSE LET p   == LongDiv(Front(b), d)
             cur == 256 * p.r + Last(b)
         IN  [q |-> Append(p.q, cur \div d), r |-> cur % d]

\* big.Int b * m + a on a big-endian byte string without leading zeros
RECURSIVE MulAdd(_, _, _)
MulAdd(b, m, a) ==
    IF b = <<>> THEN (IF a = 0 THEN <<>> ELSE <<a>>)
    ELSE LET cur == Last(b) * m + a
         IN  Append(MulAdd(Front(b), m, cur \div 256), cur % 256)

IsZero(b) == \A j \in 1..Len(b) : b[j] = 0

\* how many leading elements of b equal z
RECURSIVE LeadingCount(_, _)
LeadingCount(b, z) ==
    IF b = <<>> \/ b[1] # z THEN 0 ELSE 1 + LeadingCount(Tail(b), z)

\* the base-58 digits of the number, most significant first
RECURSIVE Base58Digits(_)
Base58Digits(b) ==
    IF IsZero(b) THEN <<>>
    ELSE LET p == LongDiv(b, Radix58) IN Append(Base58Digits(p.q), p.r)

\* base58.Encode: the digits of the number, one "1" for every leading zero
\* byte in front
Base58Encode(b) ==
    LET digits == Base58Digits(b)
    IN  [j \in 1..LeadingCount(b, 0) |-> "1"]
            \o [j \in 1..Len(digits) |-> Base58Alphabet[digits[j] + 1]]

Base58DigitOf(c) == (CHOOSE d \in 1..Radix58 : Base58Alphabet[d] = c) - 1

\* the number a digit string stands for
RECURSIVE Base58Value(_)
Base58Value(s) ==
    IF s = <<>> THEN <<>>
    ELSE MulAdd(Base58Value(Front(s)), Radix58, Base58DigitOf(Last(s)))

\* base58.Decode: the empty string for a character outside the alphabet,
\* one zero byte for every leading "1"
Base58Decode(s) ==
    IF \E j \in 1..Len(s) : \A d \in 1..Radix58 : Base58Alphabet[d] # s[j]
    THEN <<>>
    ELSE [j \in 1..LeadingCount(s, "1") |-> 0] \o Base58Value(s)

\* base58.CheckEncode, behind AddressPubKeyHash.EncodeAddress
CheckEncode(input, version) ==
    Base58Encode(<<version>> \o input \o Checksum(<<version>> \o input))

\* base58.CheckDecode, behind btcutil.DecodeAddress
CheckDecode(s) ==
    LET decoded == Base58Decode(s)
        n       == Len(decoded)
    IN  IF n < 5 THEN [ok |-> FALSE, version |-> 0, hash |-> <<>>]
        ELSE IF Checksum(SubSeq(decoded, 1, n - 4)) # SubSeq(decoded, n - 3, n)
        THEN [ok |-> FALSE, version |-> 0, hash |-> <<>>]
        ELSE [ok |-> TRUE, version |-> decoded[1],
              hash |-> SubSeq(decoded, 2, n - 4)]

\* the address prefix byte of a Tron address
TronPrefix == 65
\* the length of a Tron address with its checksum
TronAddressLen == 25

\* the Tron routines from the payload on: prefix byte, checksum, base-58
TronEncode(ethAddress, version) ==
    LET tronAddrBytes == <<version>> \o ethAddress
    IN  Base58Encode(tronAddrBytes \o Checksum(tronAddrBytes))

\* address.Base58ToAddress (common.DecodeCheck): 25 bytes, the prefix byte,
\* the checksum; yields the 21 bytes without the checksum
Base58ToAddress(s) ==
    LET decoded == Base58Decode(s)
    IN  IF Len(decoded) # TronAddressLen \/ decoded[1] # TronPrefix
        THEN [ok |-> FALSE, version |-> 0, hash |-> <<>>]
        ELSE IF Checksum(SubSeq(decoded, 1, 21)) # SubSeq(decoded, 22, 25)
        THEN [ok |-> FALSE, version |-> 0, hash |-> <<>>]
        ELSE [ok |-> TRUE, version |-> decoded[1],
              hash |-> SubSeq(decoded, 2, 21)]

\* hex.EncodeToString as characters
HexString(b) == [j \in 1..(2 * Len(b)) |-> HexDigits[HexOf(b)[j] + 1]]

\* the Stacks version bytes
StacksMainnet == 26
StacksTestnet == 21
\* how many characters of the hex string encodeC32Address keeps
C32HexChars == 32

\* An encoder that writes "SP" for the mainnet version only.
encodeC32AddressMainnetPrefix(version, hash) ==
    LET data   == <<version>> \o hash
        prefix == IF version = StacksMainnet THEN <<"S", "P">> ELSE <<"S", "T">>
    IN  prefix \o SubSeq(HexString(data), 1, C32HexChars)

\* An encoder that writes the whole of the hex string.
encodeC32AddressWhole(version, hash) ==
    LET data   == <<version>> \o hash
        prefix == IF version = StacksTestnet THEN <<"S", "T">> ELSE <<"S", "P">>
    IN  prefix \o HexString(data)

encodeC32Address(version, hash) ==
    LET data   == <<version>> \o hash
        prefix == IF version = StacksTestnet THEN <<"S", "T">> ELSE <<"S", "P">>
    IN  prefix \o SubSeq(HexString(data), 1, C32HexChars)

----------------------------------------------------------------------------
(* Vocabulary of the properties *)

\* the amount the caller asked for, in satoshis
Requested == amountBTC

\* the value an unspent output has on chain, in satoshis
ChainValue(u) == u.Value

\* the on-chain value of the first n outputs of the snapshot
RECURSIVE SumChain(_)
SumChain(n) == IF n = 0 THEN 0 ELSE ChainValue(utxos[n]) + SumChain(n - 1)

\* input j of tx is built from utxos[j]: both loops append in list order
InputValue == SumChain(Len(tx.TxIn))
OutputValue == SumValues(tx.TxOut)

\* the routine has handed its transaction to the signing loop: it is
\* signing, has signed, or has ended in the signing loop or the broadcast
Built ==
    \/ pc \in {"sign", "send", "done"}
    \/ /\ pc = "fatal"
       /\ err \in {"Failed to decode scriptPubKey", "Failed to sign",
                   "Failed to sign transaction", "Failed to send transaction",
                   "Failed to broadcast transaction",
                   "Failed to read broadcast response"}

Signed(j) == tx.TxIn[j].SignatureScript # <<>>

\* the prefixes of the snapshot that cover amount + fee
CoverLengths == { n \in 1..Len(utxos) : SumChain(n) >= Requested + Fee }

\* the locking script utxos[j] has on chain
LockingScript(j) == HexDecodeString(utxos[j].ScriptPubKey)

\* t with the unlocking script of every input outside S removed
KeepSignatures(t, S) ==
    [t EXCEPT !.TxIn = [j \in 1..Len(t.TxIn) |->
        IF j \in S THEN t.TxIn[j]
                   ELSE [t.TxIn[j] EXCEPT !.SignatureScript = <<>>]]]

----------------------------------------------------------------------------
(* Properties *)

\* C1: every transaction handed to signing has
\* sum(input values) = sum(output values) + fee exactly, and
\* inputs - outputs is never negative.
C1_FeeCoverage ==
    Built => /\ InputValue = OutputValue + Fee
             /\ InputValue - OutputValue >= 0

\* C2: when the snapshot's total value is below amount + fee, nothing is
\* signed or broadcast, and the run that has collected every input ends
\* with the insufficient-funds error.
C2_InsufficientFundsFails ==
    SumChain(Len(utxos)) < Requested + Fee =>
        /\ pc \notin {"sign", "send", "done"}
        /\ subscripts = <<>>
        /\ sent = <<>>
        /\ (pc = "fatal" /\ toAddress.ok /\ utxos # <<>> /\ Len(tx.TxIn) = Len(utxos)
               => err = "Insufficient funds")

\* C3: the inputs of a built transaction are exactly the shortest prefix of
\* the snapshot whose value covers amount + fee.
C3_ShortestPrefix ==
    (Built /\ CoverLengths # {}) =>
        /\ Len(tx.TxIn) \in CoverLengths
        /\ \A n \in CoverLengths : Len(tx.TxIn) <= n

\* C4: a transaction handed to signing has one or two outputs; the first
\* is the payment output (destination script, requested amount); it has a
\* second output, carrying the change inputs - amount - fee, exactly if
\* that change exceeds the threshold.  Inputs are counted at their on-chain
\* value, the amount as the caller requested it.
C4_OutputShape ==
    Built =>
        LET change == InputValue - Requested - Fee
        IN  /\ Len(tx.TxOut) \in {1, 2}
            /\ tx.TxOut[1] = NewTxOut(Requested, PayToPubKeyHashScript(toAddress.hash))
            /\ (Len(tx.TxOut) = 2) <=> (change > DustThreshold)
            /\ Len(tx.TxOut) = 2 => tx.TxOut[2].Value = change

\* C5: every transaction handed to the broadcaster has a signature script
\* on each of its inputs, and a run that failed while building or signing
\* has handed over nothing.
C5_NoPartialBroadcast ==
    /\ \A n \in 1..Len(sent) :
          /\ sent[n].TxIn # <<>>
          /\ \A j \in 1..Len(sent[n].TxIn) : sent[n].TxIn[j].SignatureScript # <<>>
    /\ (pc = "fatal" /\ err \notin {"Failed to send transaction",
                                   "Failed to broadcast transaction",
                                   "Failed to read broadcast response"})
          => sent = <<>>

\* C5 witness: a transaction of several inputs handed to the broadcaster
C5_Witness ==
    /\ sent # <<>>
    /\ Len(sent[1].TxIn) >= 2

\* C6: no two inputs of a built transaction reference the same outpoint.
C6_NoDuplicateOutpoint ==
    Built => \A a, b \in 1..Len(tx.TxIn) :
                a # b => OutPoint(tx.TxIn[a]) # OutPoint(tx.TxIn[b])

\* C7: when signing is about to start, input j references the transaction
\* id and the output index of the j-th selected UTXO, and carries no
\* unlocking script.
C7_InputsReferenceSelected ==
    (pc = "sign" /\ i = 1) =>
        \A j \in 1..Len(tx.TxIn) :
            /\ HashString(tx.TxIn[j].Hash) = utxos[j].TxID
            /\ tx.TxIn[j].Index = utxos[j].Vout
            /\ tx.TxIn[j].SignatureScript = <<>>

\* C8: the prior locking script handed to the signer for input j is the
\* locking script of the UTXO input j is built from.
C8_SignerGetsLockingScript ==
    \A j \in 1..Len(subscripts) :
        /\ j <= Len(utxos)
        /\ LockingScript(j).ok
        /\ subscripts[j] = LockingScript(j).bytes

\* C9: the signature script an input carries is the one the signer yields
\* for it whichever of the other inputs already carry theirs.
C9_SigningIndependent ==
    \A idx \in 1..Len(tx.TxIn) :
        Signed(idx) =>
            \A S \in SUBSET (1..Len(tx.TxIn) \ {idx}) :
                SignatureScript(KeepSignatures(tx, S), idx, subscripts[idx],
                                SigHashAll, wif.PrivKey).script
                    = tx.TxIn[idx].SignatureScript

\* C9 witness: three inputs, all signed one after the other
C9_Witness ==
    /\ pc = "send"
    /\ Len(tx.TxIn) = 3
    /\ \A j \in 1..3 : Signed(j)

\* the locking script of utxos[j] pays a key hash other than the signer's
KeyMismatch(j) ==
    /\ LockingScript(j).ok
    /\ IsPayToPubKeyHash(LockingScript(j).bytes)
    /\ ScriptKeyHash(LockingScript(j).bytes) # Hash160(PubKey(wif.PrivKey))

\* C10: an input whose UTXO is locked to another key's hash is never
\* signed, and a transaction holding such an input is never broadcast.
C10_KeyMismatchFails ==
    \A j \in 1..Len(tx.TxIn) :
        KeyMismatch(j) => ~Signed(j) /\ sent = <<>>

----------------------------------------------------------------------------
(* The encoders applied to two (payloadHash, version) pairs *)

P2PKH == "Base58Check P2PKH"
TRON == "Tron Base58Check"
STACKS == "encodeC32Address"

\* 20-byte payload hashes: all zero, ascending, ascending with another last
\* byte, all 0xff
HashPool ==
    { [j \in 1..20 |-> 0],
      [j \in 1..20 |-> j],
      [j \in 1..20 |-> IF j = 20 THEN 99 ELSE j],
      [j \in 1..20 |-> 255] }

\* the version bytes each encoding is used with: Bitcoin main and test net
\* and Litecoin; the Tron prefix; Stacks main and test net
Versions(variant) ==
    IF variant = P2PKH THEN {0, 111, 48}
    ELSE IF variant = TRON THEN {TronPrefix}
    ELSE {StacksMainnet, StacksTestnet}

Pairs(variant) == [hash : HashPool, version : Versions(variant)]

Encode(variant, p) ==
    IF variant = P2PKH THEN CheckEncode(p.hash, p.version)
    ELSE IF variant = TRON THEN TronEncode(p.hash, p.version)
    ELSE encodeC32Address(p.version, p.hash)

\* the decoder the source pairs with the encoder; the Stacks form has none
HasDecoder(variant) == variant \in {P2PKH, TRON}

Decode(variant, str) ==
    IF variant = P2PKH THEN CheckDecode(str) ELSE Base58ToAddress(str)

NotDecoded == [ok |-> FALSE, version |-> 0, hash |-> <<>>]

\* every transfer variable at rest while another routine is looked at
TransferAtRest ==
    /\ fn = "none" /\ pc = "rest"
    /\ wif = [PrivKey |-> 0, ok |-> FALSE]
    /\ toAddress = [ok |-> FALSE, hash |-> <<>>]
    /\ amountBTC = 0 /\ utxos = <<>>
    /\ tx = NewMsgTx /\ totalInput = 0 /\ amount = 0
    /\ k = 1 /\ i = 1 /\ subscripts = <<>>
    /\ sent = <<>> /\ err = ""

transferVars == <<fn, wif, toAddress, amountBTC, utxos, pc, tx, totalInput,
                  amount, k, i, subscripts, sent, err>>

EncInit ==
    /\ TransferAtRest
    /\ acct = NoAcct
    /\ \E variant \in {P2PKH, TRON, STACKS} :
         \E a \in Pairs(variant), b \in Pairs(variant) :
            enc = [variant |-> variant, step |-> "drawn", a |-> a, b |-> b,
                   outA |-> <<>>, outB |-> <<>>,
                   decA |-> NotDecoded, decB |-> NotDecoded]

EncodePair ==
    /\ enc.step = "drawn"
    /\ enc' = [enc EXCEPT !.step = "encoded",
                          !.outA = Encode(enc.variant, enc.a),
                          !.outB = Encode(enc.variant, enc.b)]
    /\ UNCHANGED <<transferVars, acct>>

DecodePair ==
    /\ enc.step = "encoded"
    /\ HasDecoder(enc.variant)
    /\ enc' = [enc EXCEPT !.step = "decoded",
                          !.decA = Decode(enc.variant, enc.outA),
                          !.decB = Decode(enc.variant, enc.outB)]
    /\ UNCHANGED <<transferVars, acct>>

EncNext == EncodePair \/ DecodePair

EncSpec == EncInit /\ [][EncNext]_vars

\* C11: for each encoding, two pairs with the same encoded address are the
\* same pair, and decoding an encoded address gives back the payload hash
\* and the version it was made from.
C11_AddressRoundTrip ==
    /\ enc.step \in {"encoded", "decoded"} =>
          (enc.outA = enc.outB => enc.a = enc.b)
    /\ enc.step = "decoded" =>
          /\ enc.decA = [ok |-> TRUE, version |-> enc.a.version, hash |-> enc.a.hash]
          /\ enc.decB = [ok |-> TRUE, version |-> enc.b.version, hash |-> enc.b.hash]

----------------------------------------------------------------------------
(* Hierarchical key derivation (go-bip32) over a small group: a private    *)
(* key is a scalar 1..KeyModulus-1, a public key is named by the scalar of *)
(* its point, point addition is addition modulo KeyModulus                 *)

\* the order of the group (the curve order N)
KeyModulus == 13
\* the values a key-sized byte string can take: 0 .. KeyWidth-1
KeyWidth == KeyModulus + 3
\* the values a chain code can take: 0 .. ChainWidth-1
ChainWidth == 4
\* the largest entropy value bip39.NewEntropy yields
MaxEntropy == 7

\* a uint32 child index n is written [hi, lo] with n = hi * 2^31 + lo
Hardened(n) == [hi |-> 1, lo |-> n]
NonHardened(n) == [hi |-> 0, lo |-> n]

\* childIdx >= FirstHardenedChild
IsHardenedIndex(childIdx) == childIdx.hi = 1

\* uint32Bytes
Uint32Bytes(childIdx) == <<childIdx.hi, childIdx.lo \div 256, childIdx.lo % 256>>

\* HMAC-SHA512 split in its two halves
Hmac512(hmacKey, data) ==
    LET h == Absorb(hmacKey \o data, Len(hmacKey) + Len(data))
    IN  [IL |-> h % KeyWidth, IR |-> (h \div KeyWidth) % ChainWidth]

\* bip39.NewMnemonic: the words stand for the entropy they encode
NewMnemonic(entropy) == [words |-> entropy]

\* bip39.NewSeed(mnemonic, "")
NewSeed(mnemonic, passphrase) == Sha256(<<mnemonic.words>> \o passphrase)

\* validatePrivateKey: not zero, below the group order
ValidPrivateKey(key) == key # 0 /\ key < KeyModulus

NoKey == [Key |-> 0, ChainCode |-> 0, Depth |-> 0, IsPrivate |-> FALSE,
          ChildNumber |-> NonHardened(0)]

\* the key of the HMAC that makes the master key, "Bitcoin seed"
BitcoinSeedTag == <<66, 105, 116>>

\* bip32.NewMasterKey
NewMasterKey(seed) ==
    LET intermediary == Hmac512(BitcoinSeedTag, seed)
    IN  IF ~ValidPrivateKey(intermediary.IL)
        THEN [ok |-> FALSE, err |-> "ErrInvalidPrivateKey", key |-> NoKey]
        ELSE [ok |-> TRUE, err |-> "",
              key |-> [Key |-> intermediary.IL, ChainCode |-> intermediary.IR,
                       Depth |-> 0, IsPrivate |-> TRUE,
                       ChildNumber |-> NonHardened(0)]]

\* publicKeyForPrivateKey: the point of the scalar
PublicKeyForPrivateKey(key) == key

\* validateChildPublicKey: the point is not the point at infinity, which
\* is the point of every multiple of the group order
ValidChildPublicKey(point) == point % KeyModulus # 0

\* the compressed serialization of a point
SerializeCompressed(point) == PubKey(point)

\* Key.getIntermediary: a zero byte and the private key for a hardened
\* index, the serialized public key otherwise, then the index
GetIntermediary(key, childIdx) ==
    LET data == IF IsHardenedIndex(childIdx)
                THEN <<0, key.Key>>
                ELSE IF key.IsPrivate
                     THEN SerializeCompressed(PublicKeyForPrivateKey(key.Key))
                     ELSE SerializeCompressed(key.Key)
    IN  Hmac512(<<key.ChainCode>>, data \o Uint32Bytes(childIdx))

\* A derivation step that has no check on the kind of the parent key.
NewChildKeyUnchecked(key, childIdx) ==
    LET intermediary == GetIntermediary(key, childIdx)
        childKey == [Key |-> (intermediary.IL + key.Key) % KeyModulus,
                     ChainCode |-> intermediary.IR,
                     Depth |-> key.Depth + 1,
                     IsPrivate |-> key.IsPrivate,
                     ChildNumber |-> childIdx]
    IN  IF key.IsPrivate
        THEN IF ~ValidPrivateKey(childKey.Key)
             THEN [ok |-> FALSE, err |-> "ErrInvalidPrivateKey", key |-> NoKey]
             ELSE [ok |-> TRUE, err |-> "", key |-> childKey]
        ELSE IF ~ValidChildPublicKey(PublicKeyForPrivateKey(intermediary.IL))
             THEN [ok |-> FALSE, err |-> "ErrInvalidPublicKey", key |-> NoKey]
             ELSE [ok |-> TRUE, err |-> "", key |-> childKey]

\* Key.NewChildKey: fails early for a hardened child of a public key; the
\* private child is the parent key plus the left half, and must be a valid
\* private key; the public child is the parent point plus the point of the
\* left half, which must be a valid point
NewChildKey(key, childIdx) ==
    LET intermediary == GetIntermediary(key, childIdx)
        childKey == [Key |-> (intermediary.IL + key.Key) % KeyModulus,
                     ChainCode |-> intermediary.IR,
                     Depth |-> key.Depth + 1,
                     IsPrivate |-> key.IsPrivate,
                     ChildNumber |-> childIdx]
    IN  IF ~key.IsPrivate /\ IsHardenedIndex(childIdx)
        THEN [ok |-> FALSE, err |-> "ErrHardnedChildPublicKey", key |-> NoKey]
        ELSE IF key.IsPrivate
        THEN IF ~ValidPrivateKey(childKey.Key)
             THEN [ok |-> FALSE, err |-> "ErrInvalidPrivateKey", key |-> NoKey]
             ELSE [ok |-> TRUE, err |-> "", key |-> childKey]
        ELSE IF ~ValidChildPublicKey(PublicKeyForPrivateKey(intermediary.IL))
             THEN [ok |-> FALSE, err |-> "ErrInvalidPublicKey", key |-> NoKey]
             ELSE [ok |-> TRUE, err |-> "", key |-> childKey]

\* Key.PublicKey: the same node with the point in place of the scalar
PublicKey(key) ==
    [key EXCEPT !.Key = IF key.IsPrivate THEN PublicKeyForPrivateKey(key.Key)
                        ELSE key.Key,
                !.IsPrivate = FALSE]

----------------------------------------------------------------------------
(* The account routines.  What a routine prints is kept line by line in     *)
(* acct.stdout, each line with its label and the string printed after it    *)

CBA == "createBitcoinAccount"
CSA == "createStacksAccount"
CLA == "CreateLitecoinAccount"
TRX == "Tron CreateAccount, LoadAccount, deriveTronAddress"

\* chaincfg: the address and private-key version bytes of the networks
PubKeyHashAddrID(routine, isMainnet) ==
    IF routine = CLA THEN 48 ELSE IF isMainnet THEN 0 ELSE 111
PrivateKeyID(routine, isMainnet) ==
    IF routine = CLA THEN 176 ELSE IF isMainnet THEN 128 ELSE 239

\* the paths m/44'/c'/0'/0/0 the two routines walk
BitcoinPath(isMainnet) ==
    LET coinType == IF isMainnet THEN 0 ELSE 1
    IN  <<Hardened(44), Hardened(coinType), Hardened(0),
          NonHardened(0), NonHardened(0)>>
StacksPath ==
    <<Hardened(44), Hardened(5757), Hardened(0), NonHardened(0), NonHardened(0)>>
Path(routine, isMainnet) ==
    IF routine = CBA THEN BitcoinPath(isMainnet) ELSE StacksPath

\* hex.EncodeToString(privateKey)
PrivateKeyHex(key) == HexString(<<key>>)

\* fmt.Println of a *btcec.PrivateKey: the scalar inside the struct
PrivateKeyStruct(key) == <<"&", "{">> \o HexString(<<key>>) \o <<"}">>

\* btcutil.NewWIF(privKey, network, true).String()
WifString(key, netID) == CheckEncode(<<key, 1>>, netID)

\* the mnemonic as the sentence that is printed
MnemonicString(mnemonic) == <<"w">> \o HexString(<<mnemonic.words>>)

\* AddressPubKeyHash.EncodeAddress and AddressPubKey.EncodeAddress: both
\* the Base58Check form of the key hash
EncodeAddress(addr, netID) ==
    CheckEncode(IF addr.kind = "pkh" THEN addr.data ELSE Hash160(addr.data),
                netID)

\* btcec.NewPrivateKey, ecdsa.GenerateKey: a valid scalar from the random
\* source
RandomPrivateKey(entropy) == 1 + (entropy % (KeyModulus - 1))

Line(label, value) == [label |-> label, value |-> value]

NoMnemonic == [words |-> 0]
NoResult == [PrivateKey |-> <<>>, WIF |-> <<>>, Address |-> <<>>,
             Mnemonic |-> <<>>]
NoTron == [raw |-> <<>>, addr |-> <<>>]
TronRoutines == {"CreateAccount", "LoadAccount", "deriveTronAddress"}

AcctInit ==
    /\ TransferAtRest
    /\ enc = NoEnc
    /\ \E routine \in {CBA, CSA, CLA, TRX}, isMainnet \in BOOLEAN,
          entropy \in 0..MaxEntropy :
         acct = [routine |-> routine, isMainnet |-> isMainnet,
                 entropy |-> entropy, pc |-> "start",
                 mnemonic |-> NoMnemonic, key |-> NoKey, index |-> 1,
                 stdout |-> <<>>, result |-> NoResult, err |-> "",
                 loaded |-> NoResult,
                 tron |-> [r \in TronRoutines |-> NoTron]]

\* log.Fatalf: the message goes to the log and the process ends
AcctFatal(msg) ==
    acct' = [acct EXCEPT !.pc = "fatal", !.err = msg,
                         !.stdout = Append(@, Line("log", <<msg>>))]

\* entropy, mnemonic, seed and master key of a create routine
CreateMaster(routine) ==
    /\ acct.routine = routine /\ acct.pc = "start"
    /\ LET mnemonic  == NewMnemonic(acct.entropy)
           seed      == NewSeed(mnemonic, <<>>)
           masterKey == NewMasterKey(seed)
       IN  IF ~masterKey.ok
           THEN AcctFatal("Failed to generate master key")
           ELSE acct' = [acct EXCEPT !.pc = "derive", !.mnemonic = mnemonic,
                                     !.key = masterKey.key, !.index = 1]
    /\ UNCHANGED <<transferVars, enc>>

\* A loop that goes on with the key it has when a step fails.
DeriveChildSkippingFailure(routine) ==
    /\ acct.routine = routine /\ acct.pc = "derive"
    /\ LET path  == Path(routine, acct.isMainnet)
           child == NewChildKey(acct.key, path[acct.index])
       IN  acct' = [acct EXCEPT
               !.key = IF child.ok THEN child.key ELSE @,
               !.pc = IF acct.index = Len(path) THEN "finish" ELSE "derive",
               !.index = IF acct.index = Len(path) THEN @ ELSE @ + 1]
    /\ UNCHANGED <<transferVars, enc>>

\* one pass of `for _, index := range path`
DeriveChild(routine) ==
    /\ acct.routine = routine /\ acct.pc = "derive"
    /\ LET path  == Path(routine, acct.isMainnet)
           child == NewChildKey(acct.key, path[acct.index])
       IN  IF ~child.ok
           THEN AcctFatal("Failed to derive key")
           ELSE acct' = [acct EXCEPT
                    !.key = child.key,
                    !.pc = IF acct.index = Len(path) THEN "finish" ELSE "derive",
                    !.index = IF acct.index = Len(path) THEN @ ELSE @ + 1]
    /\ UNCHANGED <<transferVars, enc>>

BitcoinCreateMaster == CreateMaster(CBA)
BitcoinDeriveChild == DeriveChild(CBA)
StacksCreateMaster == CreateMaster(CSA)
StacksDeriveChild == DeriveChild(CSA)

\* createBitcoinAccount after the loop: WIF, address, the printed lines,
\* the account returned
BitcoinAccountFinish ==
    /\ acct.routine = CBA /\ acct.pc = "finish"
    /\ LET privateKey == acct.key.Key
           wifStr     == WifString(privateKey, PrivateKeyID(CBA, acct.isMainnet))
           publicKey  == NewAddressPubKey(SerializeCompressed(PublicKey(acct.key).Key))
           address    == EncodeAddress(publicKey, PubKeyHashAddrID(CBA, acct.isMainnet))
       IN  acct' = [acct EXCEPT
               !.pc = "done",
               !.stdout = @ \o <<Line("New account created:", <<>>),
                                 Line("Private Key:", PrivateKeyHex(privateKey)),
                                 Line("WIF:", wifStr),
                                 Line("Address:", address),
                                 Line("Mnemonic:", MnemonicString(acct.mnemonic))>>,
               !.result = [PrivateKey |-> PrivateKeyHex(privateKey),
                           WIF |-> wifStr, Address |-> address,
                           Mnemonic |-> <<>>]]
    /\ UNCHANGED <<transferVars, enc>>

\* createStacksAccount after the loop
StacksAccountFinish ==
    /\ acct.routine = CSA /\ acct.pc = "finish"
    /\ LET privateKey     == acct.key.Key
           publicKeyBytes == SerializeCompressed(PublicKeyForPrivateKey(privateKey))
           hash           == Hash160(publicKeyBytes)
           version        == IF acct.isMainnet THEN StacksMainnet ELSE StacksTestnet
           address        == encodeC32Address(version, hash)
       IN  acct' = [acct EXCEPT
               !.pc = "done",
               !.stdout = @ \o <<Line("Private Key:", PrivateKeyStruct(privateKey)),
                                 Line("New account created:", <<>>),
                                 Line("Private Key:", PrivateKeyHex(privateKey)),
                                 Line("Address:", address),
                                 Line("Mnemonic:", MnemonicString(acct.mnemonic))>>,
               !.result = [PrivateKey |-> PrivateKeyHex(privateKey),
                           WIF |-> <<>>, Address |-> address,
                           Mnemonic |-> MnemonicString(acct.mnemonic)]]
    /\ UNCHANGED <<transferVars, enc>>

\* CreateLitecoinAccount with the Litecoin parameters of main
CreateLitecoinAccount ==
    /\ acct.routine = CLA /\ acct.pc = "start"
    /\ LET privKey    == RandomPrivateKey(acct.entropy)
           wifObj     == WifString(privKey, PrivateKeyID(CLA, acct.isMainnet))
           pubKeyHash == Hash160(SerializeCompressed(PublicKeyForPrivateKey(privKey)))
           addr       == NewAddressPubKeyHash(pubKeyHash)
           address    == EncodeAddress(addr, PubKeyHashAddrID(CLA, acct.isMainnet))
       IN  acct' = [acct EXCEPT
               !.pc = "done",
               !.key = [NoKey EXCEPT !.Key = privKey, !.IsPrivate = TRUE],
               !.stdout = @ \o <<Line("New Litecoin account created:", <<>>),
                                 Line("WIF:", wifObj),
                                 Line("Address:", address)>>,
               !.result = [PrivateKey |-> <<>>, WIF |-> wifObj,
                           Address |-> address, Mnemonic |-> <<>>]]
    /\ UNCHANGED <<transferVars, enc>>

\* crypto.FromECDSAPub: 0x04 and the two coordinates, 65 bytes
FromECDSAPub(key) == <<4>> \o [j \in 1..64 |-> (key * j + j) % 256]

\* encoding/hex fromHexChar: the digits in either case
IsHexChar(c) == \E d \in 1..16 : HexDigits[d] = c \/ UpperHexDigits[d] = c

HexDigitOf(c) ==
    (CHOOSE d \in 1..16 : HexDigits[d] = c \/ UpperHexDigits[d] = c) - 1

\* hex.DecodeString on a string of characters
DecodeString(str) ==
    HexDecodeString([j \in 1..Len(str) |->
                        IF IsHexChar(str[j]) THEN HexDigitOf(str[j]) ELSE NonHex])

\* btcec.PrivKeyFromBytes: the scalar of the leading bytes of a key's
\* width (one byte), reduced modulo the group order; no bytes give zero
PrivKeyFromBytes(b) == IF b = <<>> THEN 0 ELSE b[1] % KeyModulus

\* crypto.HexToECDSA: the scalar the hex string spells, an error for a
\* string that is not the hex of a valid private key
HexToECDSA(str) ==
    LET dec == DecodeString(str)
    IN  IF dec.ok /\ Len(dec.bytes) = 1 /\ ValidPrivateKey(dec.bytes[1])
        THEN [ok |-> TRUE, key |-> dec.bytes[1]]
        ELSE [ok |-> FALSE, key |-> 0]

\* Tron CreateAccount
TronCreateAccount ==
    /\ acct.routine = TRX /\ acct.pc = "start"
    /\ LET privateKey     == RandomPrivateKey(acct.entropy)
           privateKeyHex  == PrivateKeyHex(privateKey)
           publicKeyBytes == FromECDSAPub(privateKey)
           hash           == Keccak256(Tail(publicKeyBytes))
           ethAddress     == SubSeq(hash, 13, 32)
           tronAddrBytes  == <<TronPrefix>> \o ethAddress
           checksum       == SubSeq(Sha256(Sha256(tronAddrBytes)), 1, 4)
           base58Addr     == Base58Encode(tronAddrBytes \o checksum)
           addr           == Base58ToAddress(base58Addr)
       IN  IF ~addr.ok
           THEN AcctFatal("Failed to create address")
           ELSE acct' = [acct EXCEPT
                    !.pc = "load",
                    !.key = [NoKey EXCEPT !.Key = privateKey, !.IsPrivate = TRUE],
                    !.tron["CreateAccount"] =
                        [raw |-> tronAddrBytes \o checksum,
                         addr |-> <<addr.version>> \o addr.hash],
                    !.stdout = @ \o <<Line("New account created:", <<>>),
                                      Line("Private Key:", privateKeyHex),
                                      Line("Address:", base58Addr)>>,
                    !.result = [PrivateKey |-> privateKeyHex, WIF |-> <<>>,
                                Address |-> base58Addr, Mnemonic |-> <<>>]]
    /\ UNCHANGED <<transferVars, enc>>

\* A LoadAccount that takes the first 20 bytes of the digest.
TronLoadAccountFirstBytes ==
    /\ acct.routine = TRX /\ acct.pc = "load"
    /\ LET privateKey == HexToECDSA(acct.result.PrivateKey)
           publicKeyBytes == FromECDSAPub(privateKey.key)
           hash           == Keccak256(Tail(publicKeyBytes))
           ethAddress     == SubSeq(hash, 1, 20)
           tronAddrBytes  == <<TronPrefix>> \o ethAddress
           checksum       == SubSeq(Sha256(Sha256(tronAddrBytes)), 1, 4)
           base58Addr     == Base58Encode(tronAddrBytes \o checksum)
           addr           == Base58ToAddress(base58Addr)
       IN  IF ~privateKey.ok
           THEN AcctFatal("Invalid private key")
           ELSE IF ~addr.ok
           THEN AcctFatal("Failed to create address")
           ELSE acct' = [acct EXCEPT
                    !.pc = "send",
                    !.tron["LoadAccount"] =
                        [raw |-> tronAddrBytes \o checksum,
                         addr |-> <<addr.version>> \o addr.hash]]
    /\ UNCHANGED <<transferVars, enc>>

\* Tron LoadAccount on the hex string CreateAccount returned
TronLoadAccount ==
    /\ acct.routine = TRX /\ acct.pc = "load"
    /\ LET privateKey == HexToECDSA(acct.result.PrivateKey)
           publicKeyBytes == FromECDSAPub(privateKey.key)
           hash           == Keccak256(Tail(publicKeyBytes))
           ethAddress     == SubSeq(hash, 13, 32)
           tronAddrBytes  == <<TronPrefix>> \o ethAddress
           checksum       == SubSeq(Sha256(Sha256(tronAddrBytes)), 1, 4)
           base58Addr     == Base58Encode(tronAddrBytes \o checksum)
           addr           == Base58ToAddress(base58Addr)
       IN  IF ~privateKey.ok
           THEN AcctFatal("Invalid private key")
           ELSE IF ~addr.ok
           THEN AcctFatal("Failed to create address")
           ELSE acct' = [acct EXCEPT
                    !.pc = "send",
                    !.tron["LoadAccount"] =
                        [raw |-> tronAddrBytes \o checksum,
                         addr |-> <<addr.version>> \o addr.hash]]
    /\ UNCHANGED <<transferVars, enc>>

\* deriveTronAddress, called by SendTransaction with the loaded key
TronDeriveAddress ==
    /\ acct.routine = TRX /\ acct.pc = "send"
    /\ LET publicKeyBytes == FromECDSAPub(acct.key.Key)
           hash           == Keccak256(Tail(publicKeyBytes))
           ethAddress     == SubSeq(hash, 13, 32)
           tronAddrBytes  == <<TronPrefix>> \o ethAddress
           checksum       == SubSeq(Sha256(Sha256(tronAddrBytes)), 1, 4)
           base58Addr     == Base58Encode(tronAddrBytes \o checksum)
           addr           == Base58ToAddress(base58Addr)
       IN  IF ~addr.ok
           THEN AcctFatal("Failed to derive address")
           ELSE acct' = [acct EXCEPT
                    !.pc = "done",
                    !.tron["deriveTronAddress"] =
                        [raw |-> tronAddrBytes \o checksum,
                         addr |-> <<addr.version>> \o addr.hash]]
    /\ UNCHANGED <<transferVars, enc>>

\* btcutil.DecodeWIF: Base58Check of the key and, for a compressed public
\* key, a 0x01 byte; the version byte is the network's private-key id
DecodeWIF(str) ==
    LET dec == CheckDecode(str)
    IN  IF dec.ok /\ (Len(dec.hash) = 1 \/ (Len(dec.hash) = 2 /\ dec.hash[2] = 1))
        THEN [ok |-> TRUE, PrivKey |-> PrivKeyFromBytes(<<dec.hash[1]>>),
              netID |-> dec.version]
        ELSE [ok |-> FALSE, PrivKey |-> 0, netID |-> 0]

\* LoadLitecoinAccount on the WIF string of the account just created; a
\* string that is no WIF is returned as an error
LoadLitecoinAccount ==
    /\ acct.routine = CLA /\ acct.pc = "done"
    /\ LET decoded    == DecodeWIF(acct.result.WIF)
           pubKeyHash == Hash160(SerializeCompressed(
                             PublicKeyForPrivateKey(decoded.PrivKey)))
           addr       == NewAddressPubKeyHash(pubKeyHash)
       IN  IF ~decoded.ok
           THEN acct' = [acct EXCEPT !.pc = "returned", !.err = "Invalid WIF"]
           ELSE acct' = [acct EXCEPT
                    !.pc = "loaded",
                    !.loaded = [PrivateKey |-> <<>>, WIF |-> acct.result.WIF,
                                Address |-> EncodeAddress(addr,
                                    PubKeyHashAddrID(CLA, acct.isMainnet)),
                                Mnemonic |-> <<>>]]
    /\ UNCHANGED <<transferVars, enc>>

\* loadBitcoinAccount on the WIF string of the account just created
BitcoinLoadAccount ==
    /\ acct.routine = CBA /\ acct.pc = "done"
    /\ LET key       == DecodeWIF(acct.result.WIF)
           publicKey == NewAddressPubKey(SerializeCompressed(
                            PublicKeyForPrivateKey(key.PrivKey)))
       IN  IF ~key.ok
           THEN AcctFatal("Invalid WIF")
           ELSE IF ~ParsePubKey(SerializeCompressed(
                        PublicKeyForPrivateKey(key.PrivKey)))
           THEN AcctFatal("Failed to generate public key")
           ELSE acct' = [acct EXCEPT
                    !.pc = "loaded",
                    !.loaded = [PrivateKey |-> PrivateKeyHex(key.PrivKey),
                                WIF |-> acct.result.WIF,
                                Address |-> EncodeAddress(publicKey,
                                    PubKeyHashAddrID(CBA, acct.isMainnet)),
                                Mnemonic |-> <<>>]]
    /\ UNCHANGED <<transferVars, enc>>

\* loadStacksAccount on the private key hex of the account just created
StacksLoadAccount ==
    /\ acct.routine = CSA /\ acct.pc = "done"
    /\ LET privateKeyBytes == DecodeString(acct.result.PrivateKey)
           publicKeyBytes == SerializeCompressed(PublicKeyForPrivateKey(
                                 PrivKeyFromBytes(privateKeyBytes.bytes)))
           hash           == Hash160(publicKeyBytes)
           version        == IF acct.isMainnet THEN StacksMainnet ELSE StacksTestnet
       IN  IF ~privateKeyBytes.ok
           THEN AcctFatal("Invalid private key")
           ELSE acct' = [acct EXCEPT
                    !.pc = "loaded",
                    !.loaded = [PrivateKey |-> acct.result.PrivateKey,
                                WIF |-> <<>>,
                                Address |-> encodeC32Address(version, hash),
                                Mnemonic |-> <<>>]]
    /\ UNCHANGED <<transferVars, enc>>

\* the caller hands the loaded key to the transfer routine of the chain:
\* the *btcutil.WIF to SendLitecoinTransaction, the WIF string to
\* sendBitcoinTransaction, which decodes it
CallTransfer ==
    /\ acct.routine \in {CLA, CBA} /\ acct.pc = "loaded"
    /\ fn' = IF acct.routine = CLA THEN LTC ELSE BTC
    /\ wif' = [ok |-> DecodeWIF(acct.loaded.WIF).ok,
               PrivKey |-> DecodeWIF(acct.loaded.WIF).PrivKey]
    /\ acct' = [acct EXCEPT !.pc = "sender"]
    /\ UNCHANGED <<toAddress, amountBTC, utxos, pc, tx, totalInput, amount,
                   k, i, subscripts, sent, err, enc>>

\* the sender address the transfer routine works with, as a string
SenderAddress ==
    IF fn = LTC
    THEN EncodeAddress(LitecoinFromAddr, PubKeyHashAddrID(CLA, acct.isMainnet))
    ELSE EncodeAddress(BitcoinFromAddress, PubKeyHashAddrID(CBA, acct.isMainnet))

AcctNext ==
    \/ BitcoinCreateMaster
    \/ BitcoinDeriveChild
    \/ BitcoinAccountFinish
    \/ StacksCreateMaster
    \/ StacksDeriveChild
    \/ StacksAccountFinish
    \/ CreateLitecoinAccount
    \/ TronCreateAccount
    \/ TronLoadAccount
    \/ TronDeriveAddress
    \/ LoadLitecoinAccount
    \/ BitcoinLoadAccount
    \/ StacksLoadAccount
    \/ CallTransfer

AcctSpec == AcctInit /\ [][AcctNext]_vars

----------------------------------------------------------------------------
(* Failure handling, serialization, the snapshot *)

\* C14: a failure is handed back to the caller as an error and the process
\* keeps running: no run of a transfer routine ends with the process
\* terminated.
C14_FailuresReturned == pc # "fatal"

\* the sequence in reverse order
Reversed(b) == [j \in 1..Len(b) |-> b[Len(b) + 1 - j]]

\* C17: in every transaction handed to the broadcaster, input j is written
\* as the bytes of the j-th UTXO's txid in the reverse of the order of the
\* hex string, followed by that UTXO's output index.
C17_TxidReversedOnTheWire ==
    \A n \in 1..Len(sent) :
        \A j \in 1..Len(sent[n].TxIn) :
            WriteOutPoint(sent[n].TxIn[j])
                = Reversed(HexDecodeString(utxos[j].TxID).bytes)
                    \o Uint32LE(utxos[j].Vout)

\* C19: no step of a run changes the UTXO list it was given, neither its
\* elements nor their order, and a run that has failed takes no further
\* step on that list.
C19_SnapshotImmutable ==
    [][/\ utxos' = utxos
       /\ pc = "fatal" => pc' = "fatal"]_vars

\* C19 witness: a run over a list of two or more UTXOs has consumed more
\* than one of them and has broadcast
C19_Witness ==
    /\ pc = "done"
    /\ Len(utxos) >= 2
    /\ Len(tx.TxIn) >= 2

----------------------------------------------------------------------------
(* Accounts: the Tron address, output, derivation failures *)

\* C12: the bytes each Tron routine hands to the base-58 encoder are 0x41,
\* the last 20 bytes of the Keccak-256 of the 64-byte public key, and the
\* first 4 bytes of the double SHA-256 of those 21 bytes, 25 bytes in all;
\* the routines that have run on a key hold the same address.
C12_TronAddressBytes ==
    \A r \in TronRoutines :
        acct.tron[r] # NoTron =>
            LET publicKey == Tail(FromECDSAPub(acct.key.Key))
                raw       == acct.tron[r].raw
            IN  /\ Len(publicKey) = 64
                /\ Len(raw) = 25
                /\ raw[1] = 65
                /\ SubSeq(raw, 2, 21) = SubSeq(Keccak256(publicKey), 13, 32)
                /\ SubSeq(raw, 22, 25)
                       = SubSeq(Sha256(Sha256(SubSeq(raw, 1, 21))), 1, 4)
                /\ \A r2 \in TronRoutines :
                       acct.tron[r2] # NoTron => acct.tron[r2] = acct.tron[r]

\* C12 witness: CreateAccount, LoadAccount and deriveTronAddress have all
\* computed the address of one key
C12_Witness ==
    /\ acct.routine = TRX /\ acct.pc = "done"
    /\ \A r \in TronRoutines : acct.tron[r] # NoTron

\* the renderings of the secrets of the account a routine has made
SecretStrings ==
    { PrivateKeyHex(acct.key.Key),
      PrivateKeyStruct(acct.key.Key),
      WifString(acct.key.Key, PrivateKeyID(acct.routine, acct.isMainnet)),
      MnemonicString(acct.mnemonic) }

\* C15: no line a create routine has written carries the private key, the
\* WIF or the mnemonic of the account it made.
C15_NoSecretInOutput ==
    acct.pc = "done" =>
        \A j \in 1..Len(acct.stdout) : acct.stdout[j].value \notin SecretStrings

\* C16: a derivation step on a non-hardened index that reports an invalid
\* child key does not end the routine with the error.
C16_InvalidChildRetried ==
    ~(/\ acct.pc = "fatal"
      /\ acct.err = "Failed to derive key"
      /\ ~IsHardenedIndex(Path(acct.routine, acct.isMainnet)[acct.index]))

\* the hardened indices of the paths, and two more
HardenedIndices == {Hardened(0), Hardened(1), Hardened(44), Hardened(5757)}

\* C20: the public counterpart of every key a create routine holds yields
\* no hardened child, only the error for a hardened child of a public key;
\* and the key a hardened step of the path is applied to is private.
C20_HardenedIsolation ==
    acct.routine \in {CBA, CSA} =>
        /\ acct.pc \in {"derive", "finish", "done"} =>
              \A childIdx \in HardenedIndices :
                  LET child == NewChildKey(PublicKey(acct.key), childIdx)
                  IN  ~child.ok /\ child.err = "ErrHardnedChildPublicKey"
        /\ (acct.pc = "derive"
              /\ IsHardenedIndex(Path(acct.routine, acct.isMainnet)[acct.index]))
              => acct.key.IsPrivate

\* C20 witness: the three hardened steps have been taken and the walk goes
\* on with the non-hardened ones
C20_Witness ==
    /\ acct.routine \in {CBA, CSA} /\ acct.pc = "derive"
    /\ acct.index = 4 /\ acct.key.Depth = 3 /\ acct.key.IsPrivate

----------------------------------------------------------------------------
(* The derivation path *)

\* bip39 and bip32 from the entropy to the master key
MasterOf(entropy) == NewMasterKey(NewSeed(NewMnemonic(entropy), <<>>))

\* child derivation applied to the elements of a path in order, up to the
\* first error
RECURSIVE DerivePath(_, _)
DerivePath(from, path) ==
    IF path = <<>> \/ ~from.ok THEN from
    ELSE DerivePath(NewChildKey(from.key, Head(path)), Tail(path))

\* C21: the path a create routine walks is [44', c', 0', 0, 0], c being 0
\* on Bitcoin mainnet, 1 on Bitcoin testnet and 5757 for Stacks; the key it
\* holds after n steps is the master key derived along the first n elements
\* in order, the account key after all five; a run that ended on a
\* derivation error has returned no key and no address.
C21_PathAppliedInOrder ==
    acct.routine \in {CBA, CSA} =>
        LET c      == IF acct.routine = CSA THEN 5757
                      ELSE IF acct.isMainnet THEN 0 ELSE 1
            path   == <<[hi |-> 1, lo |-> 44], [hi |-> 1, lo |-> c],
                        [hi |-> 1, lo |-> 0], [hi |-> 0, lo |-> 0],
                        [hi |-> 0, lo |-> 0]>>
            master == MasterOf(acct.entropy)
            walked == DerivePath(master, path)
        IN  /\ Path(acct.routine, acct.isMainnet) = path
            /\ acct.pc = "derive" =>
                  acct.key = DerivePath(master, SubSeq(path, 1, acct.index - 1)).key
            /\ acct.pc \in {"finish", "done"} =>
                  walked.ok /\ acct.key = walked.key /\ acct.key.Depth = 5
            /\ acct.pc = "done" =>
                  acct.result.PrivateKey = PrivateKeyHex(walked.key.Key)
            /\ acct.pc = "fatal" =>
                  /\ ~walked.ok
                  /\ acct.result = NoResult
                  /\ \A j \in 1..Len(acct.stdout) :
                         acct.stdout[j].label # "Address:"

\* C21 witness: createStacksAccount has walked its five steps and returned
C21_Witness ==
    /\ acct.routine = CSA /\ acct.pc = "done"
    /\ acct.key.Depth = 5
    /\ acct.result.Address # <<>>

\* C22: the address the load routine gives for the key of an account and
\* the sender address the transfer routine works with for that key are the
\* address the create routine gave, on the same network.
C22_AddressSameOnEveryPath ==
    acct.routine \in {CLA, CBA} =>
        /\ acct.pc \in {"loaded", "sender"} =>
              acct.loaded.Address = acct.result.Address
        /\ acct.pc = "sender" =>
              wif.ok /\ SenderAddress = acct.result.Address

\* C22 witness: an account has been created, loaded again and handed to
\* the transfer routine
C22_Witness ==
    /\ acct.routine \in {CLA, CBA} /\ acct.pc = "sender"
    /\ acct.result.Address # <<>>
    /\ wif.PrivKey = acct.key.Key

----------------------------------------------------------------------------
(* The Stacks address *)

LowercaseHex ==
    {"0", "1", "2", "3", "4", "5", "6", "7", "8", "9",
     "a", "b", "c", "d", "e", "f"}

\* a string of 34 characters: the prefix, then 32 lowercase hex digits
StacksShape(address, prefix) ==
    /\ Len(address) = 34
    /\ SubSeq(address, 1, 2) = prefix
    /\ \A j \in 3..34 : address[j] \in LowercaseHex

\* C23: for the key hash of a Stacks account and every version byte,
\* encodeC32Address gives 34 characters, "ST" and 32 lowercase hex digits
\* for version 21, "SP" and 32 lowercase hex digits for any other version;
\* the address createStacksAccount and loadStacksAccount return is the one
\* of version 26 on mainnet (SP) and of version 21 on testnet (ST).
C23_StacksAddressShape ==
    (acct.routine = CSA /\ acct.pc \in {"done", "loaded"}) =>
        LET hash == Hash160(SerializeCompressed(PublicKeyForPrivateKey(acct.key.Key)))
        IN  /\ \A version \in 0..255 :
                  StacksShape(encodeC32Address(version, hash),
                              IF version = 21 THEN <<"S", "T">> ELSE <<"S", "P">>)
            /\ acct.result.Address
                   = encodeC32Address(IF acct.isMainnet THEN 26 ELSE 21, hash)
            /\ StacksShape(acct.result.Address,
                           IF acct.isMainnet THEN <<"S", "P">> ELSE <<"S", "T">>)
            /\ acct.pc = "loaded" => acct.loaded.Address = acct.result.Address

\* C23 witness: a testnet account has been created and loaded again
C23_Witness ==
    /\ acct.routine = CSA /\ acct.pc = "loaded" /\ ~acct.isMainnet
    /\ SubSeq(acct.loaded.Address, 1, 2) = <<"S", "T">>

\* C24: two hashes that agree on their first 15 bytes have the same Stacks
\* address under the same version.
C24_FirstFifteenBytesOnly ==
    (/\ enc.variant = STACKS
     /\ enc.step = "encoded"
     /\ enc.a.version = enc.b.version
     /\ SubSeq(enc.a.hash, 1, 15) = SubSeq(enc.b.hash, 1, 15))
        => enc.outA = enc.outB

\* C24 witness: two hashes that differ only after the fifteenth byte have
\* been encoded under one version
C24_Witness ==
    /\ enc.variant = STACKS /\ enc.step = "encoded"
    /\ enc.a.version = enc.b.version
    /\ enc.a.hash # enc.b.hash
    /\ SubSeq(enc.a.hash, 1, 15) = SubSeq(enc.b.hash, 1, 15)
    /\ enc.outA = enc.outB

----------------------------------------------------------------------------
(* Outputs, the order of building and signing, the txid, the empty list *)

\* C25: every output of a transaction that has reached signing has a value
\* above zero, and a request of zero or less has produced no output.
C25_OutputsPositive ==
    /\ pc \in {"sign", "send", "done"} =>
          \A j \in 1..Len(tx.TxOut) : tx.TxOut[j].Value > 0
    /\ Requested <= 0 => tx.TxOut = <<>>

\* the outpoints of the inputs of a transaction, in order
Outpoints(t) == [j \in 1..Len(t.TxIn) |-> OutPoint(t.TxIn[j])]

\* the copy of the transaction a signature script commits to
Committed(sigScript) == sigScript[1].sig.hash

\* C26: when signing starts the transaction has its inputs and outputs;
\* from then on no step adds, removes or alters an input's outpoint or an
\* output; and every signature of a transaction handed to the broadcaster
\* commits to exactly the outpoints and outputs of that transaction.
C26_FrozenWhileSigning ==
    /\ [](pc = "sign" => tx.TxIn # <<>> /\ tx.TxOut # <<>>)
    /\ [][(pc = "sign" \/ pc = "send") =>
             (Outpoints(tx') = Outpoints(tx) /\ tx'.TxOut = tx.TxOut)]_vars
    /\ [](\A n \in 1..Len(sent) :
             \A j \in 1..Len(sent[n].TxIn) :
                 /\ Outpoints(Committed(sent[n].TxIn[j].SignatureScript))
                        = Outpoints(sent[n])
                 /\ Committed(sent[n].TxIn[j].SignatureScript).TxOut
                        = sent[n].TxOut)

\* C26 witness: a transaction of two inputs and two outputs has been signed
\* input by input and handed to the broadcaster
C26_Witness ==
    /\ pc = "done" /\ sent # <<>>
    /\ Len(tx.TxIn) = 2 /\ Len(tx.TxOut) = 2
    /\ \A j \in 1..2 : Signed(j)

\* the locking script that pays the address of the signing key: the
\* pay-to-pubkey-hash script of the hash of its public key
SenderScript == PayToPubKeyHashScript(Hash160(PubKey(wif.PrivKey)))

\* C27: an output after the payment output, the change, is locked to the
\* address of the key that signs the inputs.
C27_ChangePaysSender ==
    \A j \in 2..Len(tx.TxOut) : tx.TxOut[j].PkScript = SenderScript

\* C28: every input of the transaction is built from a UTXO whose txid
\* string decodes to exactly 32 bytes; a UTXO with any other txid string
\* ends the run before an input for it is added.
C28_TxidExactly32Bytes ==
    \A j \in 1..Len(tx.TxIn) :
        /\ HexDecodeString(utxos[j].TxID).ok
        /\ Len(HexDecodeString(utxos[j].TxID).bytes) = HashSize

\* C29: a run on an empty UTXO list does not get past its start: it ends
\* there with an error, and no input, output, signature or broadcast
\* exists in it.
C29_EmptyListFails ==
    utxos = <<>> =>
        /\ pc \in {"start", "fatal"}
        /\ tx.TxIn = <<>> /\ tx.TxOut = <<>>
        /\ subscripts = <<>>
        /\ sent = <<>>

\* C29 witness: the provider has answered with an empty list and the run
\* has ended on that
C29_Witness ==
    /\ utxos = <<>>
    /\ pc = "fatal"
    /\ err \in {"No unspent outputs available", "No UTXOs found for address"}

=============================================================================
